---- MODULE Spec2Model ----
(***************************************************************************)
(* A model of src/index.js: the WhatsApp connection bootstrapper with its  *)
(* bounded reconnection policy, the connection.update handler, and the     *)
(* message relay (messages.upsert -> handleIncomingMessage ->              *)
(* generateAIResponse).                                                    *)
(*                                                                         *)
(* JavaScript runs one callback at a time; a callback runs until it        *)
(* returns or reaches an `await`.  Every action below is one such          *)
(* run-to-completion segment.  The library (baileys), the QR renderer, the *)
(* text-generation API and the timers are the environment: their events    *)
(* and outcomes are chosen nondeterministically.                           *)
(***************************************************************************)
EXTENDS Integers, Sequences, FiniteSets, TLC

\* ------------------------------------------------------------------ constants
maxRetries == 5
retryDelay == 5000

\* ------------------------------------------------------------------ bounds
\* number of sockets makeWASocket may create in one run of the process
MaxSockets == 6
\* number of messages.upsert events delivered in one run of the process
MaxUpserts == 1

\* ------------------------------------------------------------------ values
\* a field that is absent from a JavaScript object reads as undefined
Undefined == "undefined"

\* pairing codes the library may hand out
QRs == {"qr1", "qr2"}

\* lastDisconnect.error.output.statusCode: DisconnectReason.loggedOut, some
\* other status code, or no status code at all
Reasons == {"loggedOut", "connectionLost", Undefined}

\* The shapes of connection.update the library emits: a connection change
\* (`close` carries lastDisconnect), a new QR code alone, or other fields
\* alone (isNewLogin, receivedPendingNotifications, ...).
ConnUpdates ==
    {[connection |-> c, qr |-> Undefined, reason |-> Undefined] :
        c \in {"connecting", "open", Undefined}}
    \cup {[connection |-> "close", qr |-> Undefined, reason |-> r] : r \in Reasons}
    \cup {[connection |-> Undefined, qr |-> q, reason |-> Undefined] : q \in QRs}

\* QRCode.toDataURL: the data URL that embeds the rendered code
toDataURL(qr) ==
    IF qr = "qr1" THEN "data:image/png;base64,qr1" ELSE "data:image/png;base64,qr2"

\* the text-generation API's answers used here; response.text() may be empty
Texts == {"", "hi there"}

\* What `await model.generateContent(prompt)` and the reading of its result come
\* to: a text, a thrown error, or a result without a usable response
ApiOutcomes ==
    {[kind |-> "text", text |-> t] : t \in Texts}
    \cup {[kind |-> k, text |-> ""] : k \in {"throws", "malformed"}}

\* the string generateAIResponse returns from its catch block
FallbackText ==
    "Hello! I received your message but encountered an issue generating a response. Please try again."

\* the text handleIncomingMessage sends from its catch block
ErrorText ==
    "Sorry, I encountered an error processing your message. Please try again."

\* remoteJid of a one-to-one chat and of a group chat
UserJid == [user |-> "15550001", server |-> "s.whatsapp.net"]
GroupJid == [user |-> "120363001", server |-> "g.us"]

\* inbound messages: a text from a user, a text from a group, a text the bot
\* itself sent, and a message of a type the relay does not extract text from
Messages ==
    {[fromMe |-> FALSE, remoteJid |-> UserJid, contentType |-> "conversation",
      conversation |-> "hello"],
     [fromMe |-> FALSE, remoteJid |-> GroupJid, contentType |-> "conversation",
      conversation |-> "hello"],
     [fromMe |-> TRUE, remoteJid |-> UserJid, contentType |-> "conversation",
      conversation |-> "hello"],
     [fromMe |-> FALSE, remoteJid |-> UserJid, contentType |-> "stickerMessage",
      conversation |-> ""]}

\* messages.upsert events: a type and a list of zero, one or two messages
UpsertEvents ==
    {[type |-> t, messages |-> l] :
        t \in {"notify", "append"},
        l \in {<<>>} \cup {<<a>> : a \in Messages}
                 \cup {<<a, b>> : a \in Messages, b \in Messages}}


VARIABLES
    sock,             \* the global socket handle: 0 while undefined, else a socket id
    created,          \* how many sockets makeWASocket has returned so far
    active,           \* ids of the sockets created and not yet closed
    qrCodeString,     \* "" or the data URL of the last rendered QR code
    connectionState,
    retryCount,
    timers,           \* delays of the pending setTimeout(initializeWhatsApp) calls
    initPending,      \* initializeWhatsApp calls suspended in useMultiFileAuthState
    qrPending,        \* connection.update handlers suspended in QR rendering
    listening,        \* the app.listen callback has run
    exited,           \* process.exit has been called
    exitCode,         \* "none" while running, else the code given to process.exit
    authDir,          \* ./auth_info_baileys: "unknown", "present", "removed", "removeFailed"
    shutdown,         \* "none", or what gracefulShutdown was last called for
    sinceReset,       \* reconnections armed since retryCount was last reset
    handled,          \* the connection.update handler segment run by the last step
    relays            \* one record per messages.upsert event delivered

connVars == <<sock, created, active, qrCodeString, connectionState, retryCount,
              timers, initPending, qrPending, listening, exited, exitCode, authDir,
              shutdown, sinceReset, handled>>
vars == <<sock, created, active, qrCodeString, connectionState, retryCount,
          timers, initPending, qrPending, listening, exited, exitCode, authDir,
          shutdown, sinceReset, handled, relays>>

NoHandler == [kind |-> "none"]

\* what `handled` records for a segment of initializeWhatsApp: nothing when it
\* went well, the catch block (and whether a timer fired to start the call)
\* when it threw
InitHandled(ok, fired) ==
    IF ok THEN NoHandler ELSE [kind |-> "initCatch", firedTimer |-> fired]

Init ==
    /\ sock = 0
    /\ created = 0
    /\ active = {}
    /\ qrCodeString = ""
    /\ connectionState = "disconnected"
    /\ retryCount = 0
    /\ timers = <<>>
    /\ initPending = 0
    /\ qrPending = {}
    /\ listening = FALSE
    /\ exited = FALSE
    /\ exitCode = "none"
    /\ authDir = "unknown"
    /\ shutdown = "none"
    /\ sinceReset = 0
    /\ handled = NoHandler
    /\ relays = <<>>

\* ------------------------------------------------------------------ helpers
RemoveAt(s, i) == SubSeq(s, 1, i - 1) \o SubSeq(s, i + 1, Len(s))

\* mutant of connectionOrUnknown: the `|| 'unknown'` default is dropped
connectionRaw(c) == c

\* connection || 'unknown'
connectionOrUnknown(c) == IF c = Undefined THEN "unknown" ELSE c

\* mutant of shouldReconnect: the logout reason is not told apart
shouldReconnectAlways(reason) == TRUE

\* (lastDisconnect?.error)?.output?.statusCode !== DisconnectReason.loggedOut
shouldReconnect(reason) == reason # "loggedOut"

\* mutant of ScheduleReconnect: the timer is armed twice
ScheduleReconnectTwice(tm, delay) == Append(Append(tm, delay), delay)

\* setTimeout(() => { initializeWhatsApp(); }, delay)
ScheduleReconnect(tm, delay) == Append(tm, delay)

\* mutant of closeBranch: the delay is computed before the counter is incremented
closeBranchDelayFirst(reason, rc, tm) ==
    IF reason # "loggedOut" /\ rc < maxRetries
    THEN [retryCount |-> rc + 1,
          timers     |-> Append(tm, retryDelay * rc),
          exited     |-> FALSE]
    ELSE [retryCount |-> rc, timers |-> tm, exited |-> TRUE]

\* mutant of closeBranch: the retry bound is off by one (<= instead of <)
closeBranchOffByOne(reason, rc, tm) ==
    IF reason # "loggedOut" /\ rc <= maxRetries
    THEN [retryCount |-> rc + 1,
          timers     |-> Append(tm, retryDelay * (rc + 1)),
          exited     |-> FALSE]
    ELSE [retryCount |-> rc, timers |-> tm, exited |-> TRUE]

\* `if (connection === 'close') { ... }` of the connection.update handler:
\* retry with a linearly growing delay, or leave the process
closeBranch(reason, rc, tm) ==
    IF shouldReconnect(reason) /\ rc < maxRetries
    THEN [retryCount |-> rc + 1,
          timers     |-> ScheduleReconnect(tm, retryDelay * (rc + 1)),
          exited     |-> FALSE]
    ELSE IF reason = "loggedOut"
    THEN [retryCount |-> rc, timers |-> tm, exited |-> TRUE]
    ELSE [retryCount |-> rc, timers |-> tm, exited |-> TRUE]

\* `if (connection === 'open') { ... }` of the connection.update handler
openBranch(rc, qs) == [retryCount |-> 0, qrCodeString |-> ""]

\* the success path of `if (qr) { try { ... } }` once both renderings are done
qrRendered(qr, rc, qs) == [retryCount |-> 0, qrCodeString |-> toDataURL(qr)]

\* mutant of initCatch: the retry bound is off by one (<= instead of <)
initCatchOffByOne(rc, tm) ==
    IF rc <= maxRetries
    THEN [retryCount |-> rc + 1,
          timers     |-> Append(tm, retryDelay * (rc + 1)),
          exited     |-> FALSE]
    ELSE [retryCount |-> rc, timers |-> tm, exited |-> TRUE]

\* mutant of initCatch: the retry is armed without counting it
initCatchNoCount(rc, tm) ==
    IF rc < maxRetries
    THEN [retryCount |-> rc,
          timers     |-> Append(tm, retryDelay * (rc + 1)),
          exited     |-> FALSE]
    ELSE [retryCount |-> rc, timers |-> tm, exited |-> TRUE]

\* the catch block of initializeWhatsApp
initCatch(rc, tm) ==
    IF rc < maxRetries
    THEN [retryCount |-> rc + 1,
          timers     |-> ScheduleReconnect(tm, retryDelay * (rc + 1)),
          exited     |-> FALSE]
    ELSE [retryCount |-> rc, timers |-> tm, exited |-> TRUE]

\* `fs.existsSync` and `fs.rmSync` of the logout branch on the credential
\* directory: removed, or left behind when rmSync throws (rmOk = FALSE)
cleanAuthState(dir, rmOk) ==
    IF dir = "present" THEN (IF rmOk THEN "removed" ELSE "removeFailed") ELSE dir

\* mutant of exitsAfterCleanup: a failed deletion is not caught and the handler
\* ends before process.exit
exitsOnlyIfCleaned(rmOk) == rmOk

\* the try/catch around the deletion logs a failure and goes on to process.exit(1)
exitsAfterCleanup(rmOk) == TRUE

\* the close branch takes its `else if (reason === DisconnectReason.loggedOut)` arm
takesLogoutArm(reason, rc) ==
    ~(shouldReconnect(reason) /\ rc < maxRetries) /\ reason = "loggedOut"

\* The part of the connection.update handler after `if (qr) { ... }`: the open
\* branch, then the close branch, on the globals as they are at that point.
\* reset tells that the qr branch has just reset the counter; rmOk is the
\* outcome of the deletion, should the logout arm run.
OpenCloseBranches(u, rc, qs, tm, reset) ==
    LET o == IF u.connection = "open" THEN openBranch(rc, qs)
             ELSE [retryCount |-> rc, qrCodeString |-> qs]
        c == IF u.connection = "close" THEN closeBranch(u.reason, o.retryCount, tm)
             ELSE [retryCount |-> o.retryCount, timers |-> tm, exited |-> FALSE]
        logout == u.connection = "close" /\ takesLogoutArm(u.reason, o.retryCount)
    IN  /\ retryCount' = c.retryCount
        /\ qrCodeString' = o.qrCodeString
        /\ timers' = c.timers
        /\ sinceReset' = (IF reset \/ u.connection = "open" THEN 0 ELSE sinceReset)
                         + (Len(c.timers) - Len(tm))
        /\ \E rmOk \in BOOLEAN :
             /\ authDir' = IF logout THEN cleanAuthState(authDir, rmOk) ELSE authDir
             /\ exited' = IF logout THEN c.exited /\ exitsAfterCleanup(rmOk)
                          ELSE c.exited
             /\ exitCode' = IF exited' THEN "1" ELSE exitCode

\* A call of initializeWhatsApp up to its first await.  ensureDirectoriesExist
\* creates the credential directory; it may throw (dirsOk = FALSE), before or
\* after having created it, which lands in the catch block; otherwise the call
\* is suspended in useMultiFileAuthState.  tm is the timer list the caller
\* leaves behind.
InitializeWhatsApp(tm, dirsOk) ==
    IF dirsOk
    THEN /\ initPending' = initPending + 1
         /\ timers' = tm
         /\ authDir' = "present"
         /\ UNCHANGED <<retryCount, exited, exitCode, sinceReset>>
    ELSE LET r == initCatch(retryCount, tm)
         IN  /\ retryCount' = r.retryCount
             /\ timers' = r.timers
             /\ exited' = r.exited
             /\ exitCode' = IF r.exited THEN "1" ELSE exitCode
             /\ sinceReset' = sinceReset + (Len(r.timers) - Len(tm))
             /\ authDir' \in {authDir, "present"}
             /\ UNCHANGED initPending

\* ------------------------------------------------------------------ actions
\* app.listen's callback: the first call of initializeWhatsApp
ServerListening ==
    /\ ~exited
    /\ ~listening
    /\ listening' = TRUE
    /\ \E dirsOk \in BOOLEAN :
         /\ InitializeWhatsApp(timers, dirsOk)
         /\ handled' = InitHandled(dirsOk, FALSE)
    /\ UNCHANGED <<sock, created, active, qrCodeString, connectionState,
                   qrPending, shutdown, relays>>

\* a reconnection timer fires and calls initializeWhatsApp
TimerFires ==
    /\ ~exited
    /\ \E i \in 1..Len(timers) :
         \E dirsOk \in BOOLEAN :
            /\ InitializeWhatsApp(RemoveAt(timers, i), dirsOk)
            /\ handled' = InitHandled(dirsOk, TRUE)
    /\ UNCHANGED <<sock, created, active, qrCodeString, connectionState,
                   qrPending, listening, shutdown, relays>>

\* useMultiFileAuthState settles and initializeWhatsApp resumes: it creates the
\* socket and registers the handlers, or one of the two calls throws
AuthStateResolved ==
    /\ ~exited
    /\ initPending > 0
    /\ initPending' = initPending - 1
    /\ \/ /\ created < MaxSockets
          /\ created' = created + 1
          /\ sock' = created + 1
          /\ active' = active \cup {created + 1}
          /\ handled' = InitHandled(TRUE, FALSE)
          /\ UNCHANGED <<retryCount, timers, exited, exitCode, sinceReset>>
       \/ /\ LET r == initCatch(retryCount, timers)
             IN  /\ retryCount' = r.retryCount
                 /\ timers' = r.timers
                 /\ exited' = r.exited
                 /\ exitCode' = IF r.exited THEN "1" ELSE exitCode
                 /\ sinceReset' = sinceReset + (Len(r.timers) - Len(timers))
          /\ handled' = InitHandled(FALSE, FALSE)
          /\ UNCHANGED <<sock, created, active>>
    /\ UNCHANGED <<qrCodeString, connectionState, qrPending, listening, authDir,
                   shutdown, relays>>

\* The library emits connection.update on socket s.  The handler stores the
\* connection state; with a QR code it suspends in QRCode.toString, without
\* one it runs the open and close branches at once.
ConnectionUpdate ==
    /\ ~exited
    /\ \E s \in active, u \in ConnUpdates :
         /\ active' = IF u.connection = "close" THEN active \ {s} ELSE active
         /\ connectionState' = connectionOrUnknown(u.connection)
         /\ IF u.qr # Undefined
            THEN /\ \A h \in qrPending : h.update.qr # u.qr
                 /\ qrPending' = qrPending \cup {[update |-> u, pc |-> "toString"]}
                 /\ handled' = [kind |-> "update", update |-> u,
                                finished |-> FALSE, rendered |-> "pending"]
                 /\ UNCHANGED <<retryCount, qrCodeString, timers, exited, exitCode,
                                authDir, sinceReset>>
            ELSE /\ OpenCloseBranches(u, retryCount, qrCodeString, timers, FALSE)
                 /\ handled' = [kind |-> "update", update |-> u,
                                finished |-> TRUE, rendered |-> "none"]
                 /\ UNCHANGED qrPending
    /\ UNCHANGED <<sock, created, initPending, listening, shutdown, relays>>

\* QRCode.toString settles: the handler goes on to QRCode.toDataURL, or the
\* rejection lands in the catch block and the handler runs to its end
QrToStringSettled ==
    /\ ~exited
    /\ \E h \in qrPending :
         /\ h.pc = "toString"
         /\ \/ /\ qrPending' = (qrPending \ {h}) \cup {[h EXCEPT !.pc = "toDataURL"]}
               /\ handled' = [kind |-> "update", update |-> h.update,
                              finished |-> FALSE, rendered |-> "pending"]
               /\ UNCHANGED <<retryCount, qrCodeString, timers, exited, exitCode,
                              authDir, sinceReset>>
            \/ /\ qrPending' = qrPending \ {h}
               /\ OpenCloseBranches(h.update, retryCount, qrCodeString, timers, FALSE)
               /\ handled' = [kind |-> "update", update |-> h.update,
                              finished |-> TRUE, rendered |-> "failed"]
    /\ UNCHANGED <<sock, created, active, connectionState, initPending,
                   listening, shutdown, relays>>

\* QRCode.toDataURL settles: the handler publishes the data URL and resets the
\* retry counter, or the rejection lands in the catch block; either way the
\* handler then runs to its end
QrToDataURLSettled ==
    /\ ~exited
    /\ \E h \in qrPending :
         /\ h.pc = "toDataURL"
         /\ qrPending' = qrPending \ {h}
         /\ \/ /\ LET r == qrRendered(h.update.qr, retryCount, qrCodeString)
                  IN  OpenCloseBranches(h.update, r.retryCount, r.qrCodeString,
                                        timers, TRUE)
               /\ handled' = [kind |-> "update", update |-> h.update,
                              finished |-> TRUE, rendered |-> "ok"]
            \/ /\ OpenCloseBranches(h.update, retryCount, qrCodeString, timers, FALSE)
               /\ handled' = [kind |-> "update", update |-> h.update,
                              finished |-> TRUE, rendered |-> "failed"]
    /\ UNCHANGED <<sock, created, active, connectionState, initPending,
                   listening, shutdown, relays>>

\* what gracefulShutdown may be called for
Signals == {"SIGTERM", "SIGINT", "uncaughtException"}

\* the update the library emits when the program itself ends the socket:
\* sock.end() passes no error, so lastDisconnect carries no status code
EndedUpdate == [connection |-> "close", qr |-> Undefined, reason |-> Undefined]

\* mutant of forceTimerArmed: gracefulShutdown arms no forced-shutdown timer
forceTimerNeverArmed(sd) == FALSE

\* `setTimeout(() => { process.exit(1); }, 10000)` is pending once
\* gracefulShutdown has run
forceTimerArmed(sd) == sd # "none"

\* `server.close(() => { process.exit(0); })` is pending once gracefulShutdown
\* has run
serverClosing(sd) == sd # "none"

\* A signal or an uncaught exception calls gracefulShutdown.  sock.end() closes
\* the socket if it is still connected, and the library emits the close update
\* at once, so the connection.update handler runs inside the call; then
\* server.close is started and the forced-shutdown timer is armed.
GracefulShutdown ==
    /\ ~exited
    /\ \E signal \in Signals : shutdown' = signal
    /\ IF sock \in active
       THEN /\ active' = active \ {sock}
            /\ connectionState' = connectionOrUnknown(EndedUpdate.connection)
            /\ OpenCloseBranches(EndedUpdate, retryCount, qrCodeString, timers, FALSE)
            /\ handled' = [kind |-> "update", update |-> EndedUpdate,
                           finished |-> TRUE, rendered |-> "none"]
       ELSE /\ handled' = NoHandler
            /\ UNCHANGED <<active, connectionState, retryCount, qrCodeString, timers,
                           exited, exitCode, authDir, sinceReset>>
    /\ UNCHANGED <<sock, created, initPending, qrPending, listening, relays>>

\* the HTTP server has closed: the callback of server.close calls process.exit(0)
ServerClosed ==
    /\ ~exited
    /\ serverClosing(shutdown)
    /\ exited' = TRUE
    /\ exitCode' = "0"
    /\ handled' = NoHandler
    /\ UNCHANGED <<sock, created, active, qrCodeString, connectionState, retryCount,
                   timers, initPending, qrPending, listening, authDir, shutdown,
                   sinceReset, relays>>

\* the forced-shutdown timer fires: process.exit(1)
ForcedShutdown ==
    /\ ~exited
    /\ forceTimerArmed(shutdown)
    /\ exited' = TRUE
    /\ exitCode' = "1"
    /\ handled' = NoHandler
    /\ UNCHANGED <<sock, created, active, qrCodeString, connectionState, retryCount,
                   timers, initPending, qrPending, listening, authDir, shutdown,
                   sinceReset, relays>>

NextConn ==
    \/ ServerListening
    \/ TimerFires
    \/ AuthStateResolved
    \/ ConnectionUpdate
    \/ QrToStringSettled
    \/ QrToDataURLSettled
    \/ GracefulShutdown
    \/ ServerClosed
    \/ ForcedShutdown

SpecConn == Init /\ [][NextConn]_vars

\* The forced-shutdown timer fires if the process is still running when it is
\* due.  Nothing makes the HTTP server finish closing: a client may keep its
\* connection open.
SpecConnFair == SpecConn /\ WF_vars(ForcedShutdown)

\* ------------------------------------------------------------------ message relay
\* the calls the relay makes on the socket and on the API, as it makes them
presenceUpdate(state, jid) == [op |-> "sendPresenceUpdate", arg |-> state, to |-> jid]
sendMessage(jid, text) == [op |-> "sendMessage", arg |-> text, to |-> jid]
generateContent(text, type) == [op |-> "generateContent", arg |-> text, to |-> type]

\* the switch of handleIncomingMessage that extracts the text of a message
messageText(message) ==
    IF message.contentType = "conversation" THEN message.conversation
    ELSE "Unsupported message type"

\* mutant of passesFilter: the event type is not looked at
passesFilterAnyType(m) == ~m.messages[1].fromMe

\* `!message.key.fromMe && m.type === 'notify'` of the messages.upsert handler
passesFilter(m) == ~m.messages[1].fromMe /\ m.type = "notify"

\* mutant of generateAIResponse: the catch block returns nothing
generateAIResponseNoFallback(outcome) ==
    IF outcome.kind = "text" THEN outcome.text ELSE ""

\* generateAIResponse: the text of the response, or the fallback from its catch
generateAIResponse(outcome) ==
    IF outcome.kind = "text" THEN outcome.text ELSE FallbackText

\* mutant of replyCalls: the reply is never sent
replyCallsNone(from, aiResponse) == <<>>

\* mutant of replyCalls: the reply is sent twice
replyCallsTwice(from, aiResponse) ==
    IF aiResponse # "" THEN <<sendMessage(from, aiResponse), sendMessage(from, aiResponse)>>
    ELSE <<>>

\* `if (aiResponse) { await sock.sendMessage(from, { text: aiResponse }); }`
replyCalls(from, aiResponse) ==
    IF aiResponse # "" THEN <<sendMessage(from, aiResponse)>> ELSE <<>>

\* the catch block of handleIncomingMessage: one sendMessage with the error text
catchCalls(message) == <<sendMessage(message.remoteJid, ErrorText)>>

\* mutant of afterErrorSendRejected: the second sendMessage is not guarded and
\* its rejection leaves handleIncomingMessage
errorSendRejectedPropagates == "propagated"

\* Where a rejected sendMessage of the error text ends: the inner catch of
\* handleIncomingMessage logs it and the function returns normally
afterErrorSendRejected == "errorSendFailed"

\* the states in which the handling of an event is over
FinalPcs == {"done", "ignored", "threw", "errorSendFailed"}

\* mutant of mayRun: a handler waits until the handlers of earlier events are over
mayRunSerialized(rs, i) == \A j \in 1..(i - 1) : rs[j].pc \in FinalPcs

\* Each messages.upsert event gets its own call of the async handler and no
\* handler awaits another: a suspended relay resumes as soon as its own
\* promise settles, whatever the other relays are doing
mayRun(rs, i) == TRUE

relayFrame ==
    /\ handled' = NoHandler
    /\ UNCHANGED <<sock, created, active, qrCodeString, connectionState, retryCount,
                   timers, initPending, qrPending, listening, exited, exitCode,
                   authDir, shutdown, sinceReset>>

\* the relay i enters the catch block of handleIncomingMessage
EnterCatch(i) ==
    relays' = [relays EXCEPT ![i].failed = TRUE,
                             ![i].calls = @ \o catchCalls(relays[i].m.messages[1]),
                             ![i].pc = "errorSend"]

\* The library emits messages.upsert on socket s.  The handler looks at the
\* first message only; if it passes the filter, handleIncomingMessage extracts
\* the text and calls sendPresenceUpdate('composing'), where it suspends.
Upsert(limit, events) ==
    /\ ~exited
    /\ Len(relays) < limit
    /\ \E s \in active, m \in events :
         relays' = Append(relays,
            [m          |-> m,
             pc         |-> IF m.messages = <<>> THEN "threw"
                            ELSE IF passesFilter(m) THEN "composing" ELSE "ignored",
             aiResponse |-> "",
             api        |-> [kind |-> "none", text |-> ""],
             failed     |-> FALSE,
             calls      |-> IF m.messages # <<>> /\ passesFilter(m)
                            THEN <<presenceUpdate("composing", m.messages[1].remoteJid)>>
                            ELSE <<>>])
    /\ relayFrame

\* any of the events, up to the bound on their number
MessagesUpsert == Upsert(MaxUpserts, UpsertEvents)

\* two events of type notify with one message each: a message A, then a message B
TwoMessages == {[type |-> "notify", messages |-> <<a>>] : a \in Messages}
DeliverAThenB == Upsert(Len(<<"A", "B">>), TwoMessages)

\* sendPresenceUpdate('composing') settles: generateAIResponse is called and
\* suspends in model.generateContent, or the rejection lands in the catch block
ComposingSettled ==
    /\ ~exited
    /\ \E i \in 1..Len(relays) :
         /\ relays[i].pc = "composing"
         /\ mayRun(relays, i)
         /\ \/ LET msg == relays[i].m.messages[1]
               IN  relays' = [relays EXCEPT
                      ![i].calls = Append(@, generateContent(messageText(msg),
                                                             msg.contentType)),
                      ![i].pc = "api"]
            \/ EnterCatch(i)
    /\ relayFrame

\* The text-generation call settles; generateAIResponse returns a text in every
\* case, and handleIncomingMessage calls sendPresenceUpdate('paused')
ApiSettled ==
    /\ ~exited
    /\ \E i \in 1..Len(relays), o \in ApiOutcomes :
         /\ relays[i].pc = "api"
         /\ mayRun(relays, i)
         /\ relays' = [relays EXCEPT
                ![i].api = o,
                ![i].aiResponse = generateAIResponse(o),
                ![i].calls = Append(@, presenceUpdate("paused",
                                                      relays[i].m.messages[1].remoteJid)),
                ![i].pc = "paused"]
    /\ relayFrame

\* sendPresenceUpdate('paused') settles: the reply is sent if there is a text,
\* or the rejection lands in the catch block
PausedSettled ==
    /\ ~exited
    /\ \E i \in 1..Len(relays) :
         /\ relays[i].pc = "paused"
         /\ mayRun(relays, i)
         /\ \/ LET out == replyCalls(relays[i].m.messages[1].remoteJid,
                                     relays[i].aiResponse)
               IN  relays' = [relays EXCEPT
                      ![i].calls = @ \o out,
                      ![i].pc = IF out = <<>> THEN "done" ELSE "send"]
            \/ EnterCatch(i)
    /\ relayFrame

\* sendMessage of the reply settles
SendSettled ==
    /\ ~exited
    /\ \E i \in 1..Len(relays) :
         /\ relays[i].pc = "send"
         /\ mayRun(relays, i)
         /\ \/ relays' = [relays EXCEPT ![i].pc = "done"]
            \/ EnterCatch(i)
    /\ relayFrame

\* sendMessage of the error text settles; its rejection is caught and logged
ErrorSendSettled ==
    /\ ~exited
    /\ \E i \in 1..Len(relays) :
         /\ relays[i].pc = "errorSend"
         /\ mayRun(relays, i)
         /\ \/ relays' = [relays EXCEPT ![i].pc = "done"]
            \/ relays' = [relays EXCEPT ![i].pc = afterErrorSendRejected]
    /\ relayFrame

NextRelay ==
    \/ ServerListening
    \/ AuthStateResolved
    \/ MessagesUpsert
    \/ ComposingSettled
    \/ ApiSettled
    \/ PausedSettled
    \/ SendSettled
    \/ ErrorSendSettled

\* the relay on the sockets the bootstrapper creates, with no connection events
SpecRelay == Init /\ [][NextRelay]_vars

\* a step of the relay of the i-th event
RelayStepOf(i) ==
    /\ Len(relays) >= i
    /\ (ComposingSettled \/ ApiSettled \/ PausedSettled \/ SendSettled
          \/ ErrorSendSettled)
    /\ relays'[i] # relays[i]

NextTwo ==
    \/ ServerListening
    \/ AuthStateResolved
    \/ DeliverAThenB
    \/ ComposingSettled
    \/ ApiSettled
    \/ PausedSettled
    \/ SendSettled
    \/ ErrorSendSettled

\* Two messages in separate events.  Every promise the relay of B awaits
\* settles sooner or later and the event loop then resumes it; nothing of the
\* kind is assumed for A, whose text-generation call may never return.
SpecTwoFair == Init /\ [][NextTwo]_vars /\ WF_vars(RelayStepOf(Len(<<"A", "B">>)))

Next == NextConn \/ NextRelay

Spec == Init /\ [][Next]_vars

\* ------------------------------------------------------------------ HTTP surface
\* GET /status
statusJson ==
    [status     |-> connectionState,
     hasQR      |-> qrCodeString # "",
     retryCount |-> retryCount,
     maxRetries |-> maxRetries]

\* GET /qr: the placeholder page, or the page that embeds the QR image
qrPage == IF qrCodeString = "" THEN "placeholder" ELSE "image"

\* ------------------------------------------------------------------ claims
\* the step just taken ran a connection.update handler to its end
Finished(h) == h.kind = "update" /\ h.finished

\* C1: a close event with a non-logout reason, handled while retryCount <
\* maxRetries, arms exactly one reconnection timer, raises retryCount by exactly
\* one, uses the delay retryDelay * (number of the attempt being scheduled),
\* and does not exit the process.
C1_CloseSchedulesOneRetry ==
    [][(/\ Finished(handled')
        /\ handled'.update.connection = "close"
        /\ handled'.update.reason # "loggedOut"
        /\ retryCount < maxRetries)
       => (/\ retryCount' = retryCount + 1
           /\ timers' = Append(timers, retryDelay * retryCount')
           /\ ~exited')]_vars

\* C1 witness: the second retry after a reset has just been scheduled, 10 s ahead
C1_Witness ==
    /\ Finished(handled)
    /\ handled.update.connection = "close"
    /\ handled.update.reason = "connectionLost"
    /\ retryCount = 2
    /\ timers = <<retryDelay * 2>>
    /\ ~exited

\* C2: a close event with the loggedOut reason arms no timer, leaves retryCount
\* alone and exits the process, whatever retryCount is.
C2_LogoutExits ==
    [][(/\ Finished(handled')
        /\ handled'.update.connection = "close"
        /\ handled'.update.reason = "loggedOut")
       => (/\ timers' = timers
           /\ retryCount' = retryCount
           /\ exited')]_vars

\* C2 witness: a logout handled after retries had already been counted
C2_Witness ==
    /\ Finished(handled)
    /\ handled.update.connection = "close"
    /\ handled.update.reason = "loggedOut"
    /\ retryCount = maxRetries
    /\ exited

\* C6: once the connection is open the QR string is empty, so GET /status
\* reports hasQR = false and GET /qr serves the placeholder page.
C6_QrClearedWhileOpen ==
    connectionState = "open" => (~statusJson.hasQR /\ qrPage = "placeholder")

\* C7: after any open event, and after any event that carries a new QR code
\* (rendered or not), retryCount is 0.
C7_ResetOnOpenOrQr ==
    (/\ Finished(handled)
     /\ (handled.update.connection = "open" \/ handled.update.qr # Undefined))
    => retryCount = 0

\* C8: at most one socket is created and not yet closed.
C8_AtMostOneActiveSocket == Cardinality(active) <= 1

\* C8 witness: the third socket is the active one, the first two were closed
C8_Witness == created = 3 /\ active = {3} /\ sock = 3

\* C9 as claimed: connectionState is one of the four documented values.
C9_FourStates ==
    connectionState \in {"disconnected", "connecting", "open", "close"}

\* C9 amended: connectionState is one of the four documented values or
\* 'unknown', which an update without a connection field stores.
C9_FiveStates ==
    connectionState \in {"disconnected", "connecting", "open", "close", "unknown"}

\* C9 witness: an update that carried only a QR code has been handled
C9_Witness ==
    /\ handled.kind = "update"
    /\ handled.update.connection = Undefined
    /\ handled.update.qr \in QRs
    /\ connectionState = "unknown"

\* C10: a close event with a non-logout reason handled when retryCount has
\* reached maxRetries arms no timer and exits the process.
C10_ExhaustedExits ==
    [][(/\ Finished(handled')
        /\ handled'.update.connection = "close"
        /\ handled'.update.reason # "loggedOut"
        /\ retryCount >= maxRetries)
       => (timers' = timers /\ exited')]_vars

\* C10 witness: the close that follows the fifth retry has ended the process
C10_Witness ==
    /\ Finished(handled)
    /\ handled.update.connection = "close"
    /\ handled.update.reason # "loggedOut"
    /\ retryCount = maxRetries
    /\ timers = <<>>
    /\ exited

\* the messages.upsert event of relay r carries a first message
HasMessage(r) == r.m.messages # <<>>

\* the first message of relay r's event, the one the handler looks at
FirstMessage(r) == r.m.messages[1]

\* a remoteJid of a group conversation
IsGroupJid(jid) == jid.server = "g.us"

\* the sendMessage calls among the calls of relay r
SendsOf(r) == SelectSeq(r.calls, LAMBDA c : c.op = "sendMessage")

\* the complete relay of an answer: composing, the API call, paused, the reply
FullRelay(msg, text) ==
    <<presenceUpdate("composing", msg.remoteJid),
      generateContent(messageText(msg), msg.contentType),
      presenceUpdate("paused", msg.remoteJid),
      sendMessage(msg.remoteJid, text)>>

\* C3: a message the bot sent itself, or one from a group, causes no presence
\* update, no API call and no sendMessage.
C3_SelfAndGroupIgnored ==
    \A i \in 1..Len(relays) :
        (/\ HasMessage(relays[i])
         /\ \/ FirstMessage(relays[i]).fromMe
            \/ IsGroupJid(FirstMessage(relays[i]).remoteJid))
        => relays[i].calls = <<>>

\* C4 as claimed: when the API returns a text T and no send operation fails,
\* the relay makes exactly the calls composing, API, paused, sendMessage(T).
C4_RelayOfAnyText ==
    \A i \in 1..Len(relays) :
        (/\ relays[i].pc = "done"
         /\ relays[i].api.kind = "text"
         /\ ~relays[i].failed)
        => relays[i].calls = FullRelay(FirstMessage(relays[i]), relays[i].api.text)

\* C4 amended: when the API returns a non-empty text T and no send operation
\* fails, the relay makes exactly the calls composing, API, paused,
\* sendMessage(T) to the sender, in this order.
C4_RelayOfNonEmptyText ==
    \A i \in 1..Len(relays) :
        (/\ relays[i].pc = "done"
         /\ relays[i].api.kind = "text"
         /\ relays[i].api.text # ""
         /\ ~relays[i].failed)
        => relays[i].calls = FullRelay(FirstMessage(relays[i]), relays[i].api.text)

\* C4 witness: a user's text has been answered with the API's text
C4_Witness ==
    \E i \in 1..Len(relays) :
        /\ relays[i].pc = "done"
        /\ relays[i].api = [kind |-> "text", text |-> "hi there"]
        /\ ~relays[i].failed
        /\ FirstMessage(relays[i]).remoteJid = UserJid
        /\ SendsOf(relays[i]) = <<sendMessage(UserJid, "hi there")>>

C11_DelayFromOldCount ==
    [][(/\ Finished(handled')
        /\ handled'.update.connection = "close"
        /\ handled'.update.reason # "loggedOut"
        /\ retryCount < maxRetries)
       => (/\ timers' = Append(timers, retryDelay * retryCount)
           /\ retryCount' = retryCount + 1)]_vars

\* C11 amended: the counter is incremented first and the delay is retryDelay
\* times the incremented value, so right after such a close the timer armed
\* last has the delay retryDelay * retryCount and the first delay is retryDelay.
C11_DelayFromNewCount ==
    (/\ Finished(handled)
     /\ handled.update.connection = "close"
     /\ handled.update.reason # "loggedOut"
     /\ ~exited)
    => (/\ retryCount >= 1
        /\ timers # <<>>
        /\ timers[Len(timers)] = retryDelay * retryCount)

\* C11 witness: the first retry after a reset waits retryDelay, not 0
C11_Witness ==
    /\ Finished(handled)
    /\ handled.update.connection = "close"
    /\ handled.update.reason # "loggedOut"
    /\ retryCount = 1
    /\ timers = <<retryDelay>>

\* the sendMessage calls of relay r that carry the generic error text
ErrorSendsOf(r) ==
    SelectSeq(r.calls, LAMBDA c : c = sendMessage(FirstMessage(r).remoteJid, ErrorText))

\* C12 as claimed: after a failed presence update or send, exactly one further
\* sendMessage with the error text goes to the same sender, and a failure of
\* that attempt is not caught: it propagates out of handleIncomingMessage.
C12_ErrorSendUnguarded ==
    \A i \in 1..Len(relays) :
        relays[i].failed
        => /\ Len(ErrorSendsOf(relays[i])) = 1
           /\ relays[i].calls[Len(relays[i].calls)] =
                sendMessage(FirstMessage(relays[i]).remoteJid, ErrorText)
           /\ relays[i].pc \in {"errorSend", "done", "propagated"}

\* C12 amended: after a failed presence update or send, exactly one further
\* sendMessage with the error text goes to the same sender, as the last call
\* of the relay; a failure of that attempt is caught and logged inside
\* handleIncomingMessage and does not propagate.
C12_ErrorSendGuarded ==
    \A i \in 1..Len(relays) :
        relays[i].failed
        => /\ Len(ErrorSendsOf(relays[i])) = 1
           /\ relays[i].calls[Len(relays[i].calls)] =
                sendMessage(FirstMessage(relays[i]).remoteJid, ErrorText)
           /\ relays[i].pc \in {"errorSend", "done", "errorSendFailed"}

\* C12 witness: the reply failed, the error text was sent once, and that
\* attempt failed too
C12_Witness ==
    \E i \in 1..Len(relays) :
        /\ relays[i].failed
        /\ relays[i].pc = "errorSendFailed"
        /\ Len(SendsOf(relays[i])) = 2
        /\ Len(ErrorSendsOf(relays[i])) = 1

\* C16 as claimed: once the text-generation call has completed, with any text
\* (an empty one included) or with a failure, and no send operation fails,
\* exactly one sendMessage to the original sender is performed.
C16_OneReplyForAnyText ==
    \A i \in 1..Len(relays) :
        (/\ relays[i].pc = "done"
         /\ relays[i].api.kind # "none"
         /\ ~relays[i].failed)
        => /\ Len(SendsOf(relays[i])) = 1
           /\ SendsOf(relays[i])[1].to = FirstMessage(relays[i]).remoteJid

\* C16 amended: once the text-generation call has completed with a non-empty
\* text or with a failure (which yields the fallback text), and no send
\* operation fails, exactly one sendMessage to the original sender is
\* performed; after an empty text none is.
C16_OneReplyForNonEmptyText ==
    \A i \in 1..Len(relays) :
        (/\ relays[i].pc = "done"
         /\ relays[i].api.kind # "none"
         /\ ~relays[i].failed)
        => IF relays[i].aiResponse # ""
           THEN /\ Len(SendsOf(relays[i])) = 1
                /\ SendsOf(relays[i])[1].to = FirstMessage(relays[i]).remoteJid
           ELSE SendsOf(relays[i]) = <<>>

\* C16 witness: a message of an unsupported type was answered once after the
\* API call had failed
C16_Witness ==
    \E i \in 1..Len(relays) :
        /\ relays[i].pc = "done"
        /\ relays[i].api.kind = "malformed"
        /\ ~relays[i].failed
        /\ FirstMessage(relays[i]).contentType = "stickerMessage"
        /\ Len(SendsOf(relays[i])) = 1

\* C20: a messages.upsert event starts at most one relay, for its first message
\* and only when its type is 'notify': every call made for the event is about
\* the first message, there is at most one API call, and an event of another
\* type, or one whose first message the bot sent, causes no call at all,
\* whatever its other messages are.
C20_OnlyFirstMessageOfNotify ==
    \A i \in 1..Len(relays) :
        LET r == relays[i]
        IN  /\ (r.m.type # "notify" \/ ~HasMessage(r)) => r.calls = <<>>
            /\ (HasMessage(r) /\ FirstMessage(r).fromMe) => r.calls = <<>>
            /\ \A k \in 1..Len(r.calls) :
                 IF r.calls[k].op = "generateContent"
                 THEN r.calls[k] = generateContent(messageText(FirstMessage(r)),
                                                   FirstMessage(r).contentType)
                 ELSE r.calls[k].to = FirstMessage(r).remoteJid
            /\ Len(SelectSeq(r.calls, LAMBDA c : c.op = "generateContent")) <= 1
            /\ Len(SelectSeq(r.calls,
                     LAMBDA c : c = presenceUpdate("composing",
                                                   FirstMessage(r).remoteJid))) <= 1

\* C20 witness: an event carried a user's text and then a group's text; only
\* the user was answered
C20_Witness ==
    \E i \in 1..Len(relays) :
        /\ relays[i].pc = "done"
        /\ Len(relays[i].m.messages) = 2
        /\ relays[i].m.messages[1].remoteJid = UserJid
        /\ relays[i].m.messages[2].remoteJid = GroupJid
        /\ ~relays[i].m.messages[2].fromMe
        /\ SendsOf(relays[i]) = <<sendMessage(UserJid, "hi there")>>

\* C17: a failure inside initializeWhatsApp follows the retry policy of a close
\* event on the same counter: below maxRetries the counter goes up by one and
\* exactly one retry is armed after retryDelay * the new count, otherwise the
\* process exits; nothing else changes hands.
C17_InitFailureRetries ==
    [][handled'.kind = "initCatch"
       => IF retryCount < maxRetries
          THEN /\ retryCount' = retryCount + 1
               /\ Len(timers') = Len(timers) + (IF handled'.firedTimer THEN 0 ELSE 1)
               /\ timers'[Len(timers')] = retryDelay * retryCount'
               /\ ~exited'
          ELSE /\ retryCount' = retryCount
               /\ Len(timers') = Len(timers) - (IF handled'.firedTimer THEN 1 ELSE 0)
               /\ exited']_vars

\* C17 witness: a retry started by a timer failed again and armed the third retry
C17_Witness ==
    /\ handled.kind = "initCatch"
    /\ handled.firedTimer
    /\ retryCount = 3
    /\ timers = <<retryDelay * 3>>
    /\ ~exited

\* C18: retryCount stays within 0..maxRetries and every pending reconnection
\* timer, armed by the close branch or by the initialization-failure branch,
\* has a delay between retryDelay and retryDelay * maxRetries.
C18_CounterAndDelayBounded ==
    /\ retryCount \in 0..maxRetries
    /\ \A k \in 1..Len(timers) :
         /\ timers[k] >= retryDelay
         /\ timers[k] <= retryDelay * maxRetries

\* C18 witness: the fifth retry is pending with the longest delay there is
C18_Witness ==
    /\ retryCount = maxRetries
    /\ timers = <<retryDelay * maxRetries>>
    /\ ~exited

\* C14: once gracefulShutdown has run for an uncaught exception the process
\* terminates: with code 0 only by the server having closed after a shutdown
\* began, and at the latest by the forced-shutdown timer; no run stays alive
\* forever.
C14_ShutdownTerminates ==
    /\ [](exitCode = "0" => shutdown # "none")
    /\ (shutdown = "uncaughtException") ~> exited

\* C14 witness: an uncaught exception ended in a clean exit after the server closed
C14_Witness ==
    /\ shutdown = "uncaughtException"
    /\ exited
    /\ exitCode = "0"

\* C15: on a close event with the loggedOut reason the credential directory
\* is deleted, or the deletion is tried and fails, and the process exits with
\* code 1 in both cases.
C15_LogoutCleansThenExits ==
    (/\ Finished(handled)
     /\ handled.update.connection = "close"
     /\ handled.update.reason = "loggedOut")
    => (/\ authDir \in {"removed", "removeFailed"}
        /\ exited
        /\ exitCode = "1")

\* C15 witness: the deletion failed and the process has exited all the same
C15_Witness ==
    /\ Finished(handled)
    /\ handled.update.reason = "loggedOut"
    /\ authDir = "removeFailed"
    /\ exited

\* the step armed a reconnection or gave up: a non-logout close was handled,
\* or initializeWhatsApp failed
AttemptFailed(h) ==
    \/ (Finished(h) /\ h.update.connection = "close" /\ h.update.reason # "loggedOut")
    \/ h.kind = "initCatch"

\* C19: while the counter is not reset (no open event handled, no QR code
\* rendered), at most maxRetries reconnections are armed, and the failure that
\* follows the last of them exits the process.
C19_BoundedRetriesThenExit ==
    /\ [](sinceReset <= maxRetries)
    /\ [][(AttemptFailed(handled') /\ sinceReset = maxRetries) => exited']_vars

\* C19 witness: with a QR code rendered on every attempt the counter keeps
\* being reset; a sixth reconnection is armed and the counter stands at 1
C19_Witness ==
    /\ created = maxRetries + 1
    /\ timers = <<retryDelay>>
    /\ retryCount = 1
    /\ sinceReset = 1
    /\ qrCodeString # ""
    /\ ~exited

\* C13: the relays are not serialized: whatever the relay of a message A does,
\* in particular if its text-generation call never returns, the relay of a
\* message B delivered after it runs to its end.
C13_SecondRelayCompletes ==
    (Len(relays) = 2) ~> (Len(relays) = 2 /\ relays[2].pc \in FinalPcs)

\* C13 witness: B has been answered in full while A still waits for the API
C13_Witness ==
    /\ Len(relays) = 2
    /\ relays[1].pc = "api"
    /\ relays[2].pc = "done"
    /\ ~relays[2].failed
    /\ relays[2].calls = FullRelay(FirstMessage(relays[2]), "hi there")

====
